---- MODULE Spec2Model ----
(***************************************************************************)
(* A2A protocol engine of opencrabs.                                       *)
(*                                                                         *)
(*  - src/src/a2a/handler.rs : the JSON-RPC dispatcher and the in-memory   *)
(*    task store behind a tokio RwLock (Spec, StoreSpec; FairSpec with     *)
(*    every started dispatch scheduled on).                                *)
(*  - src/src/a2a/debate.rs  : the debate session engine (DebateSpec;      *)
(*    OrderlySpec for rounds numbered in order), its prompts and messages  *)
(*    (PromptSpec), all of its operations on one session (EngineSpec) and  *)
(*    the consensus analysis on its own, over confidences that are binary  *)
(*    fractions (ConsensusSpec) and in f64 over decimal ones (FloatSpec).  *)
(*                                                                         *)
(* a2a/types.rs is not part of the source tree at hand: the shape of       *)
(* JsonRpcResponse, the TaskState variants and two of the error codes are  *)
(* taken from the specification and from the handler's tests.              *)
(***************************************************************************)
EXTENDS Integers, Sequences, FiniteSets, TLC

\* ----------------------------------------------------------------- bounds
\* concurrent callers of dispatch
NumClients == 2
\* tasks created in one behaviour
MaxTasks == 2
\* ticks of the wall clock (chrono::Utc::now)
MaxClock == 1
\* rounds recorded in one session
MaxRecorded == 2
\* the largest round_number a caller passes
MaxRoundNumber == 3
\* responses in a list handed to analyze_consensus
MaxBees == 3
\* entries of bee_endpoints
MaxEndpoints == 3
\* values Uuid::new_v4() hands out in one behaviour of the debate engine
MaxUuids == 4
\* entries of knowledge_context
MaxSources == 2
\* rounds a caller that numbers its rounds in order records in one debate
MaxInOrder == 4

\* ------------------------------------------------------- Option<T> values
None == << >>
Some(v) == <<v>>
IsSome(o) == o /= None
Unwrap(o) == o[1]

\* ------------------------------------------------------------ JSON-RPC
\* error_codes::* ; the two values the tests pin down, and the two that only
\* a2a/types.rs holds.
METHOD_NOT_FOUND == -32601
TASK_NOT_FOUND == -32001
INVALID_PARAMS == -32602
UNSUPPORTED_OPERATION == -32004

\* TaskState: the four variants the handler names, and one standing for the
\* variants it reaches only through its `_` arm.
TaskStates == {"Working", "Completed", "Failed", "Canceled", "Submitted"}
TerminalStates == {"Completed", "Failed", "Canceled"}

\* JsonRpcResponse::success(id, result)
Success(id, result) ==
  [jsonrpc |-> "2.0", id |-> id, result |-> Some(result), error |-> None]

\* JsonRpcResponse::error(id, code, message)
Error(id, code, message) ==
  [jsonrpc |-> "2.0", id |-> id, result |-> None,
   error |-> Some([code |-> code, message |-> message])]

\* the slot of a caller that holds no response yet
NoResponse == [jsonrpc |-> "", id |-> 0, result |-> None, error |-> None]

\* ------------------------------------------------------------- strings
\* A string is a pair: a v4 UUID is <<"uuid", n>> (the n-th value the
\* generator hands out), a string a caller chose is <<"str", k>>.
Uuid(n) == <<"uuid", n>>
Str(k) == <<"str", k>>

\* chrono::Utc::now().to_rfc3339(): the instant, rendered
Rfc3339(t) == <<"rfc3339", t>>

\* ------------------------------------------------------------ messages
\* the messages callers submit: with and without a context id
ClientMessage(ctx) ==
  [message_id |-> None, context_id |-> ctx, task_id |-> None, role |-> "User",
   parts |-> <<[text |-> Some("Hello, agent!")]>>, metadata |-> None]

Messages == {ClientMessage(None), ClientMessage(Some(Str(1)))}

\* params values: an object with a message, an object with an id, and an
\* object with neither
MessageParams(m) == [message |-> m]
IdParams(i) == [id |-> i]
JunkParams == [junk |-> 0]

\* serde_json::from_value::<SendMessageParams>(params)
ParseSendMessageParams(params) ==
  IF "message" \in DOMAIN params THEN Some(params) ELSE None

\* serde_json::from_value::<GetTaskParams>(params)
ParseGetTaskParams(params) ==
  IF "id" \in DOMAIN params THEN Some(params) ELSE None

\* serde_json::from_value::<CancelTaskParams>(params)
ParseCancelTaskParams(params) ==
  IF "id" \in DOMAIN params THEN Some(params) ELSE None

\* parts.iter().filter_map(|p| p.text.as_deref()).collect().join("\n"):
\* the texts that are present, in order
RECURSIVE UserText(_)
UserText(parts) ==
  IF parts = << >> THEN << >>
  ELSE IF IsSome(Head(parts).text)
       THEN <<Unwrap(Head(parts).text)>> \o UserText(Tail(parts))
       ELSE UserText(Tail(parts))

\* user_text.len(): bytes of the joined text (one separator between lines)
RECURSIVE TextLen(_)
TextLen(lines) ==
  IF lines = << >> THEN 0
  ELSE Len(Head(lines)) + (IF Len(lines) > 1 THEN 1 ELSE 0) + TextLen(Tail(lines))

\* the text of the status message: the user text, cut at 100 bytes
StatusText(user_text) ==
  [prefix |-> "Task created. Processing: ", text |-> user_text,
   cut |-> TextLen(user_text) > 100]

\* serde_json::to_value(&task): TaskState is rendered in lower case
StateJson(state) ==
  CASE state = "Working" -> "working"
    [] state = "Completed" -> "completed"
    [] state = "Failed" -> "failed"
    [] state = "Canceled" -> "canceled"
    [] OTHER -> "submitted"

TaskJson(task) ==
  [id |-> task.id, contextId |-> task.context_id,
   status |-> [state |-> StateJson(task.status.state),
               message |-> task.status.message,
               timestamp |-> task.status.timestamp],
   artifacts |-> task.artifacts, history |-> task.history,
   metadata |-> task.metadata]

\* ============================================================ task store
VARIABLES
  store,      \* TaskStore: the HashMap<String, Task> behind the RwLock
  lock,       \* the RwLock: its writer, its readers, the FIFO of waiters
  pc,         \* where each caller's dispatch stands
  req,        \* the JsonRpcRequest each running dispatch was given
  task,       \* handle_send_message's local `task`
  resp,       \* the JsonRpcResponse a handler has built and is about to return
  clock,      \* chrono::Utc::now()
  uuids,      \* how many values Uuid::new_v4() has handed out
  created,    \* history: message/send calls that returned a result
  cancelled   \* history: per task id, tasks/cancel calls that returned a result

regVars == <<store, lock, pc, req, task, resp, clock, uuids, created, cancelled>>

VARIABLES
  session,    \* the DebateSession
  in_order,   \* history: every record_round so far passed current_round + 1
  out         \* the engine call made last: its name, arguments and outcome

debVars == <<session, in_order, out>>

Clients == 1 .. NumClients
Methods == {"message/send", "tasks/get", "tasks/cancel", "unknown/method"}
RequestIds == {1, 99}

JsonRpcRequest(method, params, id) ==
  [jsonrpc |-> "2.0", method |-> method, params |-> params, id |-> id]

NoRequest == JsonRpcRequest("", JunkParams, 0)

\* new_task_store()
new_task_store == << >>

FreeLock == [writer |-> 0, readers |-> {}, queue |-> << >>]

\* ---------------------------------------------------------- the RwLock
\* tokio's RwLock is fair: waiters queue in FIFO order, and a release hands
\* the lock to the waiters at the head of the queue before anyone else.
WantsWrite(c) == pc[c] \in {"send_wait", "cancel_wait"}

RECURSIVE Grant(_)
Grant(l) ==
  IF l.queue = << >> THEN l
  ELSE LET h == Head(l.queue) IN
       IF WantsWrite(h)
       THEN IF l.writer = 0 /\ l.readers = {}
            THEN [l EXCEPT !.writer = h, !.queue = Tail(l.queue)]
            ELSE l
       ELSE IF l.writer = 0
            THEN Grant([l EXCEPT !.readers = @ \cup {h}, !.queue = Tail(l.queue)])
            ELSE l

\* mutant: the guard is leaked and the lock stays taken
ReleaseWriteLeaks(l, c) == l

\* the guard is dropped
ReleaseWrite(l, c) == Grant([l EXCEPT !.writer = 0])
ReleaseRead(l, c) == Grant([l EXCEPT !.readers = @ \ {c}])

\* mutant: a writer does not wait for the readers to leave
CanWriteAmongReaders(l) == l.writer = 0 /\ l.queue = << >>

\* store.write().await, first poll: taken at once, or queued
CanWrite(l) == l.writer = 0 /\ l.readers = {} /\ l.queue = << >>
\* mutant: a reader does not wait for the writer to leave
CanReadDuringWrite(l) == l.queue = << >>

\* store.read().await, first poll
CanRead(l) == l.writer = 0 /\ l.queue = << >>

HoldsWrite(c) == lock.writer = c
HoldsRead(c) == c \in lock.readers

\* ------------------------------------------------------------ the callers
\* mutant: a generator that starts over at every call of the handler
NewUuidRestarts(k) == Uuid(k)

\* Uuid::new_v4(), the k-th call from now: a value no earlier call returned
NewUuid(k) == Uuid(uuids + k)

\* tasks.insert(key, value)
Insert(map, key, value) ==
  [k \in DOMAIN map \cup {key} |-> IF k = key THEN value ELSE map[k]]

\* the Task handle_send_message builds for `message` at instant `now`
NewTask(message, now) ==
  LET user_text == UserText(message.parts)
      task_id == NewUuid(1)
      fresh == ~IsSome(message.context_id)
      context_id == IF fresh THEN NewUuid(2) ELSE Unwrap(message.context_id)
      message_id == IF fresh THEN NewUuid(3) ELSE NewUuid(2)
  IN [id |-> task_id,
      context_id |-> Some(context_id),
      status |-> [state |-> "Working",
                  message |-> Some([message_id |-> Some(message_id),
                                    context_id |-> Some(context_id),
                                    task_id |-> Some(task_id),
                                    role |-> "Agent",
                                    parts |-> <<[text |-> Some(StatusText(user_text))]>>,
                                    metadata |-> None]),
                  timestamp |-> Some(Rfc3339(now))],
      artifacts |-> << >>,
      history |-> <<message>>,
      metadata |-> None]

\* how many Uuid::new_v4() calls building the task makes
UuidsDrawn(message) == IF IsSome(message.context_id) THEN 2 ELSE 3

\* the params a caller may send: any message, the id of any stored task, an
\* id nothing is stored under, or an object no handler can parse
ParamsOffered ==
  {JunkParams} \cup {MessageParams(m) : m \in Messages}
               \cup {IdParams(i) : i \in DOMAIN store \cup {Str(0)}}

\* tasks stored or about to be
TasksUnderWay ==
  Cardinality(DOMAIN store)
    + Cardinality({c \in Clients : pc[c] \in {"send_lock", "send_wait", "send_insert"}})

\* a caller with no call running calls dispatch with `request`
Calls(c, request) ==
  /\ pc[c] = "idle"
  /\ req' = [req EXCEPT ![c] = request]

\* the handler returns resp[c] to its caller; its locals are dropped
Returns(c) ==
  /\ pc' = [pc EXCEPT ![c] = "idle"]
  /\ req' = [req EXCEPT ![c] = NoRequest]
  /\ resp' = [resp EXCEPT ![c] = NoResponse]
  /\ task' = [task EXCEPT ![c] = None]

\* serde's account of what is wrong with the params
SerdeError(params, field) == <<"missing field", field>>

\* ------------------------------------------- the responses the code builds
\* mutant: the request id is not echoed
MethodNotFoundNullId(request) ==
  Error(0, METHOD_NOT_FOUND, <<"Method not found: ", request.method>>)

\* JsonRpcResponse::error(req.id, METHOD_NOT_FOUND, "Method not found: ..")
MethodNotFound(request) ==
  Error(request.id, METHOD_NOT_FOUND, <<"Method not found: ", request.method>>)

\* mutant: the wrong error code
InvalidParamsAsMethodNotFound(request, field) ==
  Error(request.id, METHOD_NOT_FOUND,
        <<"Invalid params: ", <<"missing field", field>> >>)

\* JsonRpcResponse::error(id, INVALID_PARAMS, "Invalid params: ..")
InvalidParams(request, field) ==
  Error(request.id, INVALID_PARAMS,
        <<"Invalid params: ", SerdeError(request.params, field)>>)

\* mutant: an unknown task id is answered with the invalid-params code
TaskNotFoundAsInvalidParams(request) ==
  Error(request.id, INVALID_PARAMS, <<"Task not found: ", request.params.id>>)

\* JsonRpcResponse::error(id, TASK_NOT_FOUND, "Task not found: ..")
TaskNotFound(request) ==
  Error(request.id, TASK_NOT_FOUND, <<"Task not found: ", request.params.id>>)

\* JsonRpcResponse::error(id, UNSUPPORTED_OPERATION, "Cannot cancel task in ..")
UnsupportedOperation(request, state) ==
  Error(request.id, UNSUPPORTED_OPERATION, <<"Cannot cancel task in state ", state>>)

\* mutant: the result is answered under a fixed id
TaskResultFixedId(request, t) == Success(1, TaskJson(t))

\* JsonRpcResponse::success(id, serde_json::to_value(&task))
TaskResult(request, t) == Success(request.id, TaskJson(t))

\* mutant: an unknown id is answered with an empty result
GetResponseNullResult(request) ==
  IF request.params.id \in DOMAIN store
  THEN Success(request.id, TaskJson(store[request.params.id]))
  ELSE Success(request.id, None)

\* what handle_get_task answers while it holds the read guard
GetResponse(request) ==
  IF request.params.id \in DOMAIN store
  THEN TaskResult(request, store[request.params.id])
  ELSE TaskNotFound(request)

\* the `_` arm of dispatch
DispatchUnknown(c) ==
  /\ UNCHANGED debVars
  /\ \E method \in Methods, params \in ParamsOffered, id \in RequestIds :
       /\ method \notin {"message/send", "tasks/get", "tasks/cancel"}
       /\ Calls(c, JsonRpcRequest(method, params, id))
       /\ resp' = [resp EXCEPT ![c] =
            MethodNotFound(JsonRpcRequest(method, params, id))]
  /\ pc' = [pc EXCEPT ![c] = "unknown_return"]
  /\ UNCHANGED <<store, lock, task, clock, uuids, created, cancelled>>

DispatchReturn(c) ==
  /\ UNCHANGED debVars
  /\ pc[c] = "unknown_return"
  /\ Returns(c)
  /\ UNCHANGED <<store, lock, clock, uuids, created, cancelled>>

\* ------------------------------------------------- handle_send_message
\* the call, the parse of the params, the task built
SendParse(c) ==
  /\ UNCHANGED debVars
  /\ \E params \in ParamsOffered, id \in RequestIds :
       LET send_params == ParseSendMessageParams(params) IN
       /\ Calls(c, JsonRpcRequest("message/send", params, id))
       /\ IF ~IsSome(send_params)
          THEN /\ resp' = [resp EXCEPT ![c] =
                    InvalidParams(JsonRpcRequest("message/send", params, id), "message")]
               /\ pc' = [pc EXCEPT ![c] = "send_invalid"]
               /\ UNCHANGED <<task, uuids>>
          ELSE /\ TasksUnderWay < MaxTasks
               /\ task' = [task EXCEPT ![c] =
                    Some(NewTask(Unwrap(send_params).message, clock))]
               /\ uuids' = uuids + UuidsDrawn(Unwrap(send_params).message)
               /\ pc' = [pc EXCEPT ![c] = "send_lock"]
               /\ UNCHANGED resp
  /\ UNCHANGED <<store, lock, clock, created, cancelled>>

\* the early return of the parse
SendInvalid(c) ==
  /\ UNCHANGED debVars
  /\ pc[c] = "send_invalid"
  /\ Returns(c)
  /\ UNCHANGED <<store, lock, clock, uuids, created, cancelled>>

\* store.write().await
SendAcquire(c) ==
  /\ UNCHANGED debVars
  /\ pc[c] = "send_lock"
  /\ IF CanWrite(lock)
     THEN /\ lock' = [lock EXCEPT !.writer = c]
          /\ pc' = [pc EXCEPT ![c] = "send_insert"]
     ELSE /\ lock' = [lock EXCEPT !.queue = Append(@, c)]
          /\ pc' = [pc EXCEPT ![c] = "send_wait"]
  /\ UNCHANGED <<store, req, task, resp, clock, uuids, created, cancelled>>

\* the waiting future is polled again after the lock was handed to it
SendWake(c) ==
  /\ UNCHANGED debVars
  /\ pc[c] = "send_wait"
  /\ HoldsWrite(c)
  /\ pc' = [pc EXCEPT ![c] = "send_insert"]
  /\ UNCHANGED <<store, lock, req, task, resp, clock, uuids, created, cancelled>>

\* tasks.insert(task_id, task); the block ends and the guard is dropped
SendInsert(c) ==
  /\ UNCHANGED debVars
  /\ pc[c] = "send_insert"
  /\ HoldsWrite(c)
  /\ store' = Insert(store, Unwrap(task[c]).id, Unwrap(task[c]))
  /\ lock' = ReleaseWrite(lock, c)
  /\ pc' = [pc EXCEPT ![c] = "send_serialize"]
  /\ UNCHANGED <<req, task, resp, clock, uuids, created, cancelled>>

\* log, serialize the local task, build the response
SendSerialize(c) ==
  /\ UNCHANGED debVars
  /\ pc[c] = "send_serialize"
  /\ resp' = [resp EXCEPT ![c] = TaskResult(req[c], Unwrap(task[c]))]
  /\ pc' = [pc EXCEPT ![c] = "send_return"]
  /\ UNCHANGED <<store, lock, req, task, clock, uuids, created, cancelled>>

SendReturn(c) ==
  /\ UNCHANGED debVars
  /\ pc[c] = "send_return"
  /\ Returns(c)
  /\ created' = created + 1
  /\ UNCHANGED <<store, lock, clock, uuids, cancelled>>

handle_send_message(c) ==
  \/ SendParse(c)
  \/ SendInvalid(c)
  \/ SendAcquire(c)
  \/ SendWake(c)
  \/ SendInsert(c)
  \/ SendSerialize(c)
  \/ SendReturn(c)

\* ------------------------------------------------------ handle_get_task
GetParse(c) ==
  /\ UNCHANGED debVars
  /\ \E params \in ParamsOffered, id \in RequestIds :
       /\ Calls(c, JsonRpcRequest("tasks/get", params, id))
       /\ IF ~IsSome(ParseGetTaskParams(params))
          THEN /\ resp' = [resp EXCEPT ![c] =
                    InvalidParams(JsonRpcRequest("tasks/get", params, id), "id")]
               /\ pc' = [pc EXCEPT ![c] = "get_invalid"]
          ELSE /\ pc' = [pc EXCEPT ![c] = "get_lock"]
               /\ UNCHANGED resp
  /\ UNCHANGED <<store, lock, task, clock, uuids, created, cancelled>>

GetInvalid(c) ==
  /\ UNCHANGED debVars
  /\ pc[c] = "get_invalid"
  /\ Returns(c)
  /\ UNCHANGED <<store, lock, clock, uuids, created, cancelled>>

\* store.read().await
GetAcquire(c) ==
  /\ UNCHANGED debVars
  /\ pc[c] = "get_lock"
  /\ IF CanRead(lock)
     THEN /\ lock' = [lock EXCEPT !.readers = @ \cup {c}]
          /\ pc' = [pc EXCEPT ![c] = "get_lookup"]
     ELSE /\ lock' = [lock EXCEPT !.queue = Append(@, c)]
          /\ pc' = [pc EXCEPT ![c] = "get_wait"]
  /\ UNCHANGED <<store, req, task, resp, clock, uuids, created, cancelled>>

GetWake(c) ==
  /\ UNCHANGED debVars
  /\ pc[c] = "get_wait"
  /\ HoldsRead(c)
  /\ pc' = [pc EXCEPT ![c] = "get_lookup"]
  /\ UNCHANGED <<store, lock, req, task, resp, clock, uuids, created, cancelled>>

\* tasks.get(&id), and the response built from what it finds
GetLookup(c) ==
  /\ UNCHANGED debVars
  /\ pc[c] = "get_lookup"
  /\ HoldsRead(c)
  /\ resp' = [resp EXCEPT ![c] = GetResponse(req[c])]
  /\ pc' = [pc EXCEPT ![c] = "get_return"]
  /\ UNCHANGED <<store, lock, req, task, clock, uuids, created, cancelled>>

\* the function returns: the read guard is dropped
GetReturn(c) ==
  /\ UNCHANGED debVars
  /\ pc[c] = "get_return"
  /\ lock' = ReleaseRead(lock, c)
  /\ Returns(c)
  /\ UNCHANGED <<store, clock, uuids, created, cancelled>>

handle_get_task(c) ==
  \/ GetParse(c)
  \/ GetInvalid(c)
  \/ GetAcquire(c)
  \/ GetWake(c)
  \/ GetLookup(c)
  \/ GetReturn(c)

\* --------------------------------------------------- handle_cancel_task
CancelParse(c) ==
  /\ UNCHANGED debVars
  /\ \E params \in ParamsOffered, id \in RequestIds :
       /\ Calls(c, JsonRpcRequest("tasks/cancel", params, id))
       /\ IF ~IsSome(ParseCancelTaskParams(params))
          THEN /\ resp' = [resp EXCEPT ![c] =
                    InvalidParams(JsonRpcRequest("tasks/cancel", params, id), "id")]
               /\ pc' = [pc EXCEPT ![c] = "cancel_invalid"]
          ELSE /\ pc' = [pc EXCEPT ![c] = "cancel_lock"]
               /\ UNCHANGED resp
  /\ UNCHANGED <<store, lock, task, clock, uuids, created, cancelled>>

CancelInvalid(c) ==
  /\ UNCHANGED debVars
  /\ pc[c] = "cancel_invalid"
  /\ Returns(c)
  /\ UNCHANGED <<store, lock, clock, uuids, created, cancelled>>

\* store.write().await
CancelAcquire(c) ==
  /\ UNCHANGED debVars
  /\ pc[c] = "cancel_lock"
  /\ IF CanWrite(lock)
     THEN /\ lock' = [lock EXCEPT !.writer = c]
          /\ pc' = [pc EXCEPT ![c] = "cancel_match"]
     ELSE /\ lock' = [lock EXCEPT !.queue = Append(@, c)]
          /\ pc' = [pc EXCEPT ![c] = "cancel_wait"]
  /\ UNCHANGED <<store, req, task, resp, clock, uuids, created, cancelled>>

CancelWake(c) ==
  /\ UNCHANGED debVars
  /\ pc[c] = "cancel_wait"
  /\ HoldsWrite(c)
  /\ pc' = [pc EXCEPT ![c] = "cancel_match"]
  /\ UNCHANGED <<store, lock, req, task, resp, clock, uuids, created, cancelled>>

\* mutants of the refusing arm: one forgets Canceled, one refuses nothing else
RefusesCancelForgetsCanceled(state) == state \in {"Completed", "Failed"}
RefusesCancelOnlyCanceled(state) == state = "Canceled"

\* the arm of `match task.status.state` that refuses
RefusesCancel(state) == state \in {"Completed", "Failed", "Canceled"}

\* mutant: the cancelled task is marked Failed
SetCanceledAsFailed(t) == [t EXCEPT !.status.state = "Failed"]

\* mutant: the cancelled task loses its status message
SetCanceledDropsMessage(t) ==
  [t EXCEPT !.status.state = "Canceled", !.status.message = None]

\* task.status.state = TaskState::Canceled
SetCanceled(t) == [t EXCEPT !.status.state = "Canceled"]

\* tasks.get_mut(&id) and the match on the state; the `_` arm sets the state
CancelMatch(c) ==
  /\ UNCHANGED debVars
  /\ pc[c] = "cancel_match"
  /\ HoldsWrite(c)
  /\ LET id == req[c].params.id IN
       IF id \notin DOMAIN store
       THEN /\ resp' = [resp EXCEPT ![c] = TaskNotFound(req[c])]
            /\ pc' = [pc EXCEPT ![c] = "cancel_return"]
            /\ UNCHANGED store
       ELSE IF RefusesCancel(store[id].status.state)
            THEN /\ resp' = [resp EXCEPT ![c] =
                      UnsupportedOperation(req[c], store[id].status.state)]
                 /\ pc' = [pc EXCEPT ![c] = "cancel_return"]
                 /\ UNCHANGED store
            ELSE /\ store' = [store EXCEPT ![id] = SetCanceled(@)]
                 /\ pc' = [pc EXCEPT ![c] = "cancel_stamp"]
                 /\ UNCHANGED resp
  /\ UNCHANGED <<lock, req, task, clock, uuids, created, cancelled>>

\* task.status.timestamp = Some(now)
CancelStamp(c) ==
  /\ UNCHANGED debVars
  /\ pc[c] = "cancel_stamp"
  /\ HoldsWrite(c)
  /\ store' = [store EXCEPT ![req[c].params.id].status.timestamp = Some(Rfc3339(clock))]
  /\ pc' = [pc EXCEPT ![c] = "cancel_serialize"]
  /\ UNCHANGED <<lock, req, task, resp, clock, uuids, created, cancelled>>

\* log, serialize the stored task, build the response
CancelSerialize(c) ==
  /\ UNCHANGED debVars
  /\ pc[c] = "cancel_serialize"
  /\ HoldsWrite(c)
  /\ resp' = [resp EXCEPT ![c] = TaskResult(req[c], store[req[c].params.id])]
  /\ pc' = [pc EXCEPT ![c] = "cancel_return"]
  /\ UNCHANGED <<store, lock, req, task, clock, uuids, created, cancelled>>

Count(tally, id) == IF id \in DOMAIN tally THEN tally[id] ELSE 0

\* the function returns: the write guard is dropped
CancelReturn(c) ==
  /\ UNCHANGED debVars
  /\ pc[c] = "cancel_return"
  /\ lock' = ReleaseWrite(lock, c)
  /\ Returns(c)
  /\ cancelled' = IF IsSome(resp[c].result)
                  THEN Insert(cancelled, req[c].params.id,
                              Count(cancelled, req[c].params.id) + 1)
                  ELSE cancelled
  /\ UNCHANGED <<store, clock, uuids, created>>

handle_cancel_task(c) ==
  \/ CancelParse(c)
  \/ CancelInvalid(c)
  \/ CancelAcquire(c)
  \/ CancelWake(c)
  \/ CancelMatch(c)
  \/ CancelStamp(c)
  \/ CancelSerialize(c)
  \/ CancelReturn(c)

\* dispatch(req, store)
dispatch(c) ==
  \/ handle_send_message(c)
  \/ handle_get_task(c)
  \/ handle_cancel_task(c)
  \/ DispatchUnknown(c)
  \/ DispatchReturn(c)

\* time passes
Tick ==
  /\ UNCHANGED debVars
  /\ clock < MaxClock
  /\ clock' = clock + 1
  /\ UNCHANGED <<store, lock, pc, req, task, resp, uuids, created, cancelled>>

RegInit ==
  /\ lock = FreeLock
  /\ pc = [c \in Clients |-> "idle"]
  /\ req = [c \in Clients |-> NoRequest]
  /\ task = [c \in Clients |-> None]
  /\ resp = [c \in Clients |-> NoResponse]
  /\ clock = 0
  /\ created = 0
  /\ cancelled = << >>

RegNext ==
  \/ \E c \in Clients : dispatch(c)
  \/ Tick

\* ========================================================= debate engine
\* confidences and thresholds are counted in quarters (q stands for q/4):
\* on these values the f64 sums, quotients and comparisons of the code are
\* the exact ones.
Quarters == 0 .. 4

\* the thresholds an f64 field may hold besides those: one below 0.0 and one
\* above 1.0
Thresholds == -1 .. 5

\* no engine call was made yet
NoCall == [op |-> "none", args |-> << >>, value |-> None, panicked |-> FALSE]

\* a call that was made and has not returned
Call(op, args) == [op |-> op, args |-> args, value |-> None, panicked |-> FALSE]

\* a call that returned `value`
Returned(op, args, value) ==
  [op |-> op, args |-> args, value |-> Some(value), panicked |-> FALSE]

\* mutant: instead of panicking the call returns an empty result
PanicsAsEmpty == Some(<< >>)

\* a call that panics returns no value
Panics == None

\* how a call that returns Some(value), or panics, has ended
Outcome(op, args, result) ==
  [op |-> op, args |-> args, value |-> result, panicked |-> ~IsSome(result)]

\* default_max_rounds()
default_max_rounds == 3

\* mutant: positions are compared as they are written
ToLowercaseKeepsCase(str) == str

\* to_lowercase()
ToLowercase(str) ==
  CASE str = "Pro" -> "pro"
    [] str = "PRO" -> "pro"
    [] str = "Con" -> "con"
    [] OTHER -> str

BeeResponse(n, confidence, position) ==
  [bee_id |-> <<"bee-", n>>, endpoint |-> <<"http://bee-", n>>,
   content |-> <<"analysis of bee ", n>>,
   confidence |-> confidence, position |-> position, key_points |-> << >>]

\* the response lists a round may collect: none, a lone confident bee (the
\* round of test_record_round_and_state_transition), agreement written in
\* two cases, a split (test_consensus_analysis_contention), agreement with
\* low confidence, and bees that state no position
RoundResponses ==
  { << >>,
    <<BeeResponse(1, 4, Some("pro"))>>,
    <<BeeResponse(1, 4, Some("Pro")), BeeResponse(2, 3, Some("pro"))>>,
    <<BeeResponse(1, 4, Some("pro")), BeeResponse(2, 3, Some("con"))>>,
    <<BeeResponse(1, 1, Some("pro")), BeeResponse(2, 2, Some("pro"))>>,
    <<BeeResponse(1, 4, None), BeeResponse(2, 4, None)>> }

Prompts == {"Round prompt"}

\* responses.iter().map(|r| r.confidence).sum()
RECURSIVE SumConfidence(_)
SumConfidence(responses) ==
  IF responses = << >> THEN 0
  ELSE Head(responses).confidence + SumConfidence(Tail(responses))

\* mutant: the mean is taken of an empty list too
AvgConfidenceUnguarded(responses) ==
  [num |-> SumConfidence(responses), den |-> Len(responses)]

\* the average, as the fraction num/den, counted in quarters like the
\* confidences; 0.0 for no response
AvgConfidence(responses) ==
  IF responses = << >> THEN [num |-> 0, den |-> 1]
  ELSE [num |-> SumConfidence(responses), den |-> Len(responses)]

\* position_counts: per lower-cased position, how many responses state it
PositionCounts(responses) ==
  LET stated == {i \in DOMAIN responses : IsSome(responses[i].position)}
      keys == {ToLowercase(Unwrap(responses[i].position)) : i \in stated}
  IN [k \in keys |->
        Cardinality({i \in stated : ToLowercase(Unwrap(responses[i].position)) = k})]

\* the orders in which a HashMap with these keys may be iterated
IterOrders(keys) ==
  {order \in [1 .. Cardinality(keys) -> keys] :
     \A i, j \in 1 .. Cardinality(keys) : i /= j => order[i] /= order[j]}

\* format!("{} ({}/{} agree)", pos, count, total)
Point(pos, count, total) == <<pos, " (", count, "/", total, " agree)">>

\* mutants: the share has to stay below the threshold; the share has to
\* exceed the threshold
ReachesThresholdInverted(count, total, threshold) == count * 4 < threshold * total
ReachesThresholdStrict(count, total, threshold) == count * 4 > threshold * total

\* count as f64 / total as f64 >= threshold
ReachesThreshold(count, total, threshold) == count * 4 >= threshold * total

\* mutant: a share equal to the threshold is in contention too
BelowThresholdInclusive(count, total, threshold) ==
  count > 0 /\ count * 4 <= threshold * total

\* ratio > 0.0 && ratio < threshold
BelowThreshold(count, total, threshold) ==
  count > 0 /\ count * 4 < threshold * total

\* position_counts.iter().filter(ratio >= threshold).map(format).collect()
RECURSIVE AgreementPoints(_, _, _, _)
AgreementPoints(order, counts, total, threshold) ==
  IF order = << >> THEN << >>
  ELSE LET pos == Head(order)
           rest == AgreementPoints(Tail(order), counts, total, threshold)
       IN IF ReachesThreshold(counts[pos], total, threshold)
          THEN <<Point(pos, counts[pos], total)>> \o rest
          ELSE rest

\* position_counts.iter().filter(0 < ratio < threshold).map(format).collect()
RECURSIVE ContentionPoints(_, _, _, _)
ContentionPoints(order, counts, total, threshold) ==
  IF order = << >> THEN << >>
  ELSE LET pos == Head(order)
           rest == ContentionPoints(Tail(order), counts, total, threshold)
       IN IF BelowThreshold(counts[pos], total, threshold)
          THEN <<Point(pos, counts[pos], total)>> \o rest
          ELSE rest

\* mutant: the average has to exceed the threshold
ConsensusReachedStrict(avg_confidence, agreement_points, threshold) ==
  /\ avg_confidence.num > threshold * avg_confidence.den
  /\ agreement_points /= << >>

\* avg_confidence >= threshold && !agreement_points.is_empty()
ConsensusReached(avg_confidence, agreement_points, threshold) ==
  /\ avg_confidence.num >= threshold * avg_confidence.den
  /\ agreement_points /= << >>

\* mutant: only the responses that state a position are counted
TotalStated(responses) ==
  Cardinality({i \in DOMAIN responses : IsSome(responses[i].position)})

\* let total = responses.len()
Total(responses) == Len(responses)

\* DebateSession::analyze_consensus(responses, threshold), the HashMap
\* iterated in `order`
analyze_consensus(responses, threshold, order) ==
  LET avg_confidence == AvgConfidence(responses)
      position_counts == PositionCounts(responses)
      total == Total(responses)
      agreement_points ==
        AgreementPoints(order, position_counts, total, threshold)
      contention_points ==
        ContentionPoints(order, position_counts, total, threshold)
  IN [avg_confidence |-> avg_confidence,
      agreement_points |-> agreement_points,
      contention_points |-> contention_points,
      blind_spots |-> << >>,
      consensus_reached |->
        ConsensusReached(avg_confidence, agreement_points, threshold)]

\* ------------------------------------------- the analysis in f64
\* Confidences and thresholds that are quarters are binary fractions, and
\* the sums above are exact for them. A confidence written in tenths (0.7,
\* 0.8, 0.9 in the tests, the default threshold 0.8) is not one: it is the
\* f64 nearest to the decimal, and every sum and quotient of such values is
\* rounded. The operators below compute what the f64 operations compute.
\* An f64 of the range the analysis works in, 0.0 and 0.25 up to 16.0, is
\* the integer m = value * 2^54, kept as two limbs m = hi * 2^28 + lo so that
\* no step leaves 32 bits; sums and quotients are rounded to the nearest
\* f64, a tie going to the even significand, as IEEE 754 does.
Limb == 268435456

F64(hi, lo) == [hi |-> hi, lo |-> lo]

\* the gap between neighbouring f64 values at hi * 2^28, in units of 2^-54:
\* 1 in [0.25, 0.5), doubling with every power of two
RECURSIVE F64Ulp(_)
F64Ulp(hi) == IF hi < 33554432 THEN 1 ELSE 2 * F64Ulp(hi \div 2)

\* the f64 nearest to hi * 2^28 + lo + num/den, ties to even
F64Round(hi, lo, num, den) ==
  LET ulp == F64Ulp(hi)
      r == lo % ulp
      down == lo - r
      twice == 2 * (r * den + num)
      up == \/ twice > ulp * den
            \/ twice = ulp * den /\ down % (2 * ulp) /= 0
      l == IF up THEN down + ulp ELSE down
  IN IF l >= Limb THEN F64(hi + 1, l - Limb) ELSE F64(hi, l)

\* a + b
F64Add(a, b) ==
  LET l == a.lo + b.lo
      h == a.hi + b.hi
  IN IF l >= Limb THEN F64Round(h + 1, l - Limb, 0, 1) ELSE F64Round(h, l, 0, 1)

\* a / n as f64, for a count n
F64Div(a, n) ==
  LET t == (a.hi % n) * Limb + a.lo
  IN F64Round(a.hi \div n, t \div n, t % n, n)

\* a >= b
F64Ge(a, b) == a.hi > b.hi \/ (a.hi = b.hi /\ a.lo >= b.lo)

\* the f64 a decimal literal t/10 denotes: the nearest one
F64Tenths(t) ==
  CASE t = 6 -> F64(40265318, 107374182)
    [] t = 7 -> F64(46976204, 214748364)
    [] t = 8 -> F64(53687091, 53687092)
    [] t = 9 -> F64(60397977, 161061274)

\* default_consensus_threshold(): 0.8
default_consensus_threshold == F64Tenths(8)

\* responses.iter().map(|r| r.confidence).sum::<f64>(): the confidences are
\* added one by one from the first to the last, each sum rounded
RECURSIVE SumF64(_)
SumF64(responses) ==
  IF responses = << >> THEN F64(0, 0)
  ELSE F64Add(SumF64(SubSeq(responses, 1, Len(responses) - 1)),
              responses[Len(responses)].confidence)

\* count as f64 / total as f64; a small integer is itself as an f64
RatioF64(count, total) == F64Div(F64(count * 67108864, 0), total)

\* position_counts.iter().filter(ratio >= threshold).map(format).collect()
RECURSIVE AgreementPointsF64(_, _, _, _)
AgreementPointsF64(order, counts, total, threshold) ==
  IF order = << >> THEN << >>
  ELSE LET pos == Head(order)
           rest == AgreementPointsF64(Tail(order), counts, total, threshold)
       IN IF F64Ge(RatioF64(counts[pos], total), threshold)
          THEN <<Point(pos, counts[pos], total)>> \o rest
          ELSE rest

\* position_counts.iter().filter(0 < ratio < threshold).map(format).collect()
RECURSIVE ContentionPointsF64(_, _, _, _)
ContentionPointsF64(order, counts, total, threshold) ==
  IF order = << >> THEN << >>
  ELSE LET pos == Head(order)
           ratio == RatioF64(counts[pos], total)
           rest == ContentionPointsF64(Tail(order), counts, total, threshold)
       IN IF ~F64Ge(F64(0, 0), ratio) /\ ~F64Ge(ratio, threshold)
          THEN <<Point(pos, counts[pos], total)>> \o rest
          ELSE rest

\* DebateSession::analyze_consensus(responses, threshold) on f64 values,
\* the HashMap iterated in `order`
analyze_consensus_f64(responses, threshold, order) ==
  LET avg_confidence == IF responses = << >> THEN F64(0, 0)
                        ELSE F64Div(SumF64(responses), Len(responses))
      position_counts == PositionCounts(responses)
      total == Total(responses)
      agreement_points ==
        AgreementPointsF64(order, position_counts, total, threshold)
      contention_points ==
        ContentionPointsF64(order, position_counts, total, threshold)
  IN [avg_confidence |-> avg_confidence,
      agreement_points |-> agreement_points,
      contention_points |-> contention_points,
      blind_spots |-> << >>,
      consensus_reached |->
        F64Ge(avg_confidence, threshold) /\ agreement_points /= << >>]

DebateConfig(max_rounds, consensus_threshold) ==
  [topic |-> "Should AI agents have persistent memory across sessions?",
   num_bees |-> 3,
   max_rounds |-> max_rounds,
   consensus_threshold |-> consensus_threshold,
   knowledge_context |-> <<"Memory architectures", "Security concern">>,
   bee_endpoints |-> <<"http://bee-1", "http://bee-2", "http://bee-3">>]

\* DebateSession::new(config)
new(config) ==
  [id |-> Uuid(1),
   config |-> config,
   current_round |-> 0,
   rounds |-> << >>,
   final_synthesis |-> None,
   state |-> "Pending"]

\* ------------------------------------------------------------- prompts
\* format!("{:.1}", confidence): one decimal, ties to the even digit
Format1(confidence) ==
  CASE confidence = 0 -> "0.0"
    [] confidence = 1 -> "0.2"
    [] confidence = 2 -> "0.5"
    [] confidence = 3 -> "0.8"
    [] confidence = 4 -> "1.0"
    [] OTHER -> "?"

\* mutant: the sources are numbered as enumerate() counts them
SourceNumberFromZero(i) == i

\* i + 1, for the i that enumerate() counts from 0
SourceNumber(i) == i + 1

\* "### Source {}\n{}\n\n", for each knowledge_context entry
Sources(knowledge_context) ==
  [k \in DOMAIN knowledge_context |->
     [source |-> SourceNumber(k - 1), text |-> knowledge_context[k]]]

\* self.round1_prompt()
round1_prompt(s) ==
  Some([topic |-> s.config.topic,
        task |-> "Round 1 - Independent Research",
        knowledge |-> s.config.knowledge_context /= << >>,
        sources |-> Sources(s.config.knowledge_context)])

\* "### Bee {} (confidence: {:.1})\n{}\n\n", for each response
BeeEntries(responses) ==
  [i \in DOMAIN responses |->
     [bee_id |-> responses[i].bee_id,
      confidence |-> Format1(responses[i].confidence),
      content |-> responses[i].content]]

\* mutant: the round of the prompt itself is looked up
PrevRoundIndexOfRound(round_num) == round_num - 1

\* round_num - 2, the index of prev_round in the 0-indexed self.rounds
PrevRoundIndex(round_num) == round_num - 2

\* self.critique_prompt(round_num): round_num - 2 underflows below 2 and the
\* index is out of range beyond the recorded rounds; both panic
critique_prompt(s, round_num) ==
  IF round_num < 2 \/ PrevRoundIndex(round_num) >= Len(s.rounds)
  THEN Panics
  ELSE LET prev_round == s.rounds[PrevRoundIndex(round_num) + 1] IN
       Some([topic |-> s.config.topic,
             task |-> "Critique & Synthesis",
             round |-> round_num,
             seen_round |-> round_num - 1,
             responses |-> BeeEntries(prev_round.responses)])

\* format!("{:.2}", avg_confidence), in hundredths: the nearest one, a tie
\* going to the even digit
Format2(avg_confidence) ==
  LET n == 25 * avg_confidence.num
      d == avg_confidence.den
      q == n \div d
      r == n % d
  IN IF 2 * r > d THEN q + 1
     ELSE IF 2 * r < d THEN q
     ELSE IF q % 2 = 0 THEN q ELSE q + 1

\* the "### Consensus Analysis" section of a round; the two lists are headed
\* only when they are not empty
ConsensusSection(consensus) ==
  [avg_confidence |-> Format2(consensus.avg_confidence),
   consensus_reached |-> consensus.consensus_reached,
   agreements |-> IF consensus.agreement_points /= << >>
                  THEN Some(consensus.agreement_points) ELSE None,
   contentions |-> IF consensus.contention_points /= << >>
                   THEN Some(consensus.contention_points) ELSE None]

\* the "## Round {}" section of each recorded round
RoundSections(rounds) ==
  [k \in DOMAIN rounds |->
     [round_number |-> rounds[k].round_number,
      responses |-> BeeEntries(rounds[k].responses),
      consensus |-> IF IsSome(rounds[k].consensus)
                    THEN Some(ConsensusSection(Unwrap(rounds[k].consensus)))
                    ELSE None]]

\* self.summary_report(); {:?} prints the name of the state
summary_report(s) ==
  [topic |-> s.config.topic,
   bees |-> s.config.num_bees,
   rounds |-> <<s.current_round, "/", s.config.max_rounds>>,
   state |-> s.state,
   sections |-> RoundSections(s.rounds),
   final_synthesis |-> s.final_synthesis]

\* mutant: num_bees decides how many endpoints are served
FanoutByNumBees(config) ==
  SubSeq(config.bee_endpoints, 1,
         IF config.num_bees < Len(config.bee_endpoints)
         THEN config.num_bees ELSE Len(config.bee_endpoints))

\* self.config.bee_endpoints.iter()
Fanout(config) == config.bee_endpoints

\* self.build_round_messages(round_num); enumerate() counts from 0
build_round_messages(s, round_num) ==
  LET prompt == IF round_num = 1 THEN round1_prompt(s)
                ELSE critique_prompt(s, round_num)
      endpoints == Fanout(s.config)
  IN IF ~IsSome(prompt) THEN Panics
     ELSE Some([k \in DOMAIN endpoints |->
            <<endpoints[k],
              [message_id |-> Some(NewUuid(k)),
               context_id |-> Some(s.id),
               task_id |-> None,
               role |-> "User",
               parts |-> <<[text |-> Some(Unwrap(prompt))]>>,
               metadata |-> Some([debate_round |-> round_num,
                                  bee_index |-> k - 1,
                                  debate_session_id |-> s.id])]>>])

\* mutant: the round is numbered from 0
DebateRoundFromZero(round_number, prompt, responses, consensus) ==
  [round_number |-> round_number - 1, prompt |-> prompt, responses |-> responses,
   consensus |-> Some(consensus)]

\* the DebateRound that record_round pushes
DebateRound(round_number, prompt, responses, consensus) ==
  [round_number |-> round_number, prompt |-> prompt, responses |-> responses,
   consensus |-> Some(consensus)]

\* mutants: current_round never goes back; current_round counts the calls
CurrentRoundNeverBack(s, round_number) ==
  IF round_number > s.current_round THEN round_number ELSE s.current_round
CurrentRoundCounted(s, round_number) == s.current_round + 2

\* self.current_round = round_number
CurrentRound(s, round_number) == round_number

\* mutants: consensus alone does not end the debate; the last round is one
\* past max_rounds; the last round is one before max_rounds
concludedAtMaxOnly(consensus, round_number, max_rounds) ==
  consensus.consensus_reached /\ round_number >= max_rounds
concludedPastMax(consensus, round_number, max_rounds) ==
  consensus.consensus_reached \/ round_number > max_rounds
concludedBeforeMax(consensus, round_number, max_rounds) ==
  consensus.consensus_reached \/ round_number + 1 >= max_rounds

\* let concluded = consensus.consensus_reached || round_number >= max_rounds
concluded(consensus, round_number, max_rounds) ==
  consensus.consensus_reached \/ round_number >= max_rounds

\* mutant: the first round is consulted
first(rounds) == IF rounds = << >> THEN None ELSE Some(rounds[1])

\* self.rounds.last()
last(rounds) == IF rounds = << >> THEN None ELSE Some(rounds[Len(rounds)])

\* mutant: a debate that goes on is marked as being in a round
NotConcludedInRound == "InRound"

\* the else arm of `if concluded`: self.state = DebateState::Analyzing
NotConcluded == "Analyzing"

\* mutant: the new round is put in front of the recorded ones
PushFront(rounds, round) == <<round>> \o rounds

\* self.rounds.push(DebateRound { .. })
Push(rounds, round) == Append(rounds, round)

\* what the session is after record_round(round_number, prompt, responses),
\* `consensus` being what analyze_consensus returned
RecordedWith(s, round_number, prompt, responses, consensus) ==
  LET rounds == Push(s.rounds, DebateRound(round_number, prompt, responses, consensus))
      r == last(rounds)
  IN [s EXCEPT
        !.rounds = rounds,
        !.current_round = CurrentRound(s, round_number),
        !.state = IF concluded(consensus, round_number, s.config.max_rounds)
                  THEN IF /\ IsSome(r)
                          /\ IsSome(Unwrap(r).consensus)
                          /\ Unwrap(Unwrap(r).consensus).consensus_reached
                       THEN "Concluded"
                       ELSE "Exhausted"
                  ELSE NotConcluded]

\* record_round with the analysis taken over quarters
Recorded(s, round_number, prompt, responses, order) ==
  RecordedWith(s, round_number, prompt, responses,
               analyze_consensus(responses, s.config.consensus_threshold, order))

\* session.record_round(round_number, prompt, responses), for any arguments
record_round ==
  /\ Len(session.rounds) < MaxRecorded
  /\ \E round_number \in 0 .. MaxRoundNumber, prompt \in Prompts,
        responses \in RoundResponses :
       \E order \in IterOrders(DOMAIN PositionCounts(responses)) :
         /\ session' = Recorded(session, round_number, prompt, responses, order)
         /\ in_order' = (in_order /\ round_number = session.current_round + 1)
         /\ out' = Returned("record_round", <<round_number>>, "()")
  /\ UNCHANGED regVars

\* session.record_round(current_round + 1, prompt, responses) by a caller
\* that numbers its rounds 1, 2, 3, .. and stops at Concluded or Exhausted
RecordInOrder ==
  /\ session.state \notin {"Concluded", "Exhausted"}
  /\ Len(session.rounds) < MaxInOrder
  /\ \E prompt \in Prompts, responses \in RoundResponses :
       \E order \in IterOrders(DOMAIN PositionCounts(responses)) :
         /\ session' = Recorded(session, session.current_round + 1, prompt,
                                responses, order)
         /\ out' = Returned("record_round", <<session.current_round + 1>>, "()")
  /\ UNCHANGED in_order
  /\ UNCHANGED regVars

DebateIdle ==
  /\ session = new(DebateConfig(default_max_rounds, 3))
  /\ in_order = TRUE
  /\ out = NoCall

\* a session as DebateSession::new makes it, for any configuration
DebateInit ==
  /\ \E max_rounds \in 0 .. default_max_rounds, consensus_threshold \in Thresholds :
       session = new(DebateConfig(max_rounds, consensus_threshold))
  /\ in_order = TRUE
  /\ out = NoCall

DebateNext == record_round

\* ------------------------------------------------ the engine's queries
\* n endpoints
Endpoints(n) == [i \in 1 .. n |-> <<"http://bee-", i>>]

\* test_config(), with num_bees and bee_endpoints of the caller's choice
FanoutConfig(num_bees, bee_endpoints) ==
  [DebateConfig(default_max_rounds, 3) EXCEPT
     !.num_bees = num_bees, !.bee_endpoints = bee_endpoints]

\* session.critique_prompt(round_num), for any round_num
CritiquePrompt ==
  /\ \E round_num \in 0 .. MaxRoundNumber :
       out' = Outcome("critique_prompt", <<round_num>>,
                      critique_prompt(session, round_num))
  /\ UNCHANGED <<session, in_order>>
  /\ UNCHANGED regVars

\* session.build_round_messages(round_num), for any round_num
BuildRoundMessages ==
  /\ uuids + Len(session.config.bee_endpoints) <= MaxUuids
  /\ \E round_num \in 0 .. MaxRoundNumber :
       LET messages == build_round_messages(session, round_num) IN
       /\ out' = Outcome("build_round_messages", <<round_num>>, messages)
       /\ uuids' = IF IsSome(messages) THEN uuids + Len(Unwrap(messages)) ELSE uuids
  /\ UNCHANGED <<session, in_order>>
  /\ UNCHANGED <<store, lock, pc, req, task, resp, clock, created, cancelled>>

\* session.round1_prompt()
Round1Prompt ==
  /\ out' = Outcome("round1_prompt", << >>, round1_prompt(session))
  /\ UNCHANGED <<session, in_order>>
  /\ UNCHANGED regVars

\* session.summary_report()
SummaryReport ==
  /\ out' = Returned("summary_report", << >>, summary_report(session))
  /\ UNCHANGED <<session, in_order>>
  /\ UNCHANGED regVars

\* DebateSession::analyze_consensus(&responses, threshold), called by the
\* owner of a session on the responses of a round with the session's threshold
AnalyzeRound ==
  /\ \E responses \in RoundResponses :
       \E order \in IterOrders(DOMAIN PositionCounts(responses)) :
         out' = Returned("analyze_consensus",
                         <<responses, session.config.consensus_threshold>>,
                         analyze_consensus(responses,
                                           session.config.consensus_threshold, order))
  /\ UNCHANGED <<session, in_order>>
  /\ UNCHANGED regVars

\* every knowledge_context of at most MaxSources entries, the entries
\* being those of test_config
KnowledgeLists ==
  UNION {[1 .. n -> {"Memory architectures", "Security concern"}] :
           n \in 0 .. MaxSources}

\* test_config(), with knowledge_context and bee_endpoints of the caller's
\* choice
EngineConfig(knowledge_context, bee_endpoints) ==
  [DebateConfig(default_max_rounds, 3) EXCEPT
     !.knowledge_context = knowledge_context, !.bee_endpoints = bee_endpoints]

\* a new session over any knowledge_context
EngineIdle ==
  /\ \E knowledge_context \in KnowledgeLists, n \in {0, 2} :
       session = new(EngineConfig(knowledge_context, Endpoints(n)))
  /\ in_order = TRUE
  /\ out = NoCall

\* a new session over any fan-out
QueryInit ==
  /\ \E num_bees \in {1, 3}, n \in 0 .. MaxEndpoints :
       session = new(FanoutConfig(num_bees, Endpoints(n)))
  /\ in_order = TRUE
  /\ out = NoCall

\* ----------------------------------------- analyze_consensus on its own
\* every list of at most MaxBees responses; a response states no position,
\* one in either of two spellings, or another
AllResponses ==
  UNION {{[i \in 1 .. n |-> BeeResponse(i, f[i][1], f[i][2])] :
            f \in [1 .. n -> Quarters \X
                     {None, Some("pro"), Some("PRO"), Some("con")}]} :
         n \in 0 .. MaxBees}

\* a caller is about to call analyze_consensus(responses, threshold)
ConsensusInit ==
  /\ session = new(DebateConfig(default_max_rounds, 3))
  /\ in_order = TRUE
  /\ \E responses \in AllResponses, threshold \in Thresholds :
       out = Call("analyze_consensus", <<responses, threshold>>)

\* DebateSession::analyze_consensus(&responses, threshold) runs and returns
AnalyzeConsensus ==
  /\ out.op = "analyze_consensus"
  /\ ~IsSome(out.value)
  /\ \E order \in IterOrders(DOMAIN PositionCounts(out.args[1])) :
       out' = Returned("analyze_consensus", out.args,
                       analyze_consensus(out.args[1], out.args[2], order))
  /\ UNCHANGED <<session, in_order>>
  /\ UNCHANGED regVars

\* the caller calls analyze_consensus again on the same responses and
\* threshold; the call builds a HashMap of its own, iterated in an order of
\* its own
AnalyzeConsensusAgain ==
  /\ out.op = "analyze_consensus"
  /\ IsSome(out.value)
  /\ \E order \in IterOrders(DOMAIN PositionCounts(out.args[1])) :
       out' = Returned("analyze_consensus", out.args,
                       analyze_consensus(out.args[1], out.args[2], order))
  /\ UNCHANGED <<session, in_order>>
  /\ UNCHANGED regVars

\* ================================================================ specs
vars == <<regVars, debVars>>

\* a store as new_task_store() makes it
Init ==
  /\ RegInit
  /\ store = new_task_store
  /\ uuids = 0
  /\ DebateIdle

\* a task some earlier holder of the store left in it, in any state
StoredTask(state) ==
  [id |-> Str(2),
   context_id |-> Some(Str(1)),
   status |-> [state |-> state, message |-> None, timestamp |-> Some(Rfc3339(0))],
   artifacts |-> << >>,
   history |-> <<ClientMessage(Some(Str(1)))>>,
   metadata |-> None]

\* dispatch is handed a store that already holds a task
StoreInit ==
  /\ RegInit
  /\ \E state \in TaskStates : store = Insert(new_task_store, Str(2), StoredTask(state))
  /\ uuids = 0
  /\ DebateIdle

Next == RegNext

\* the dispatcher on a new store
Spec == Init /\ [][Next]_vars

\* the call of caller c, once made, takes its next step: the task that runs
\* the handler is polled again
Proceeds(c) == pc[c] /= "idle" /\ dispatch(c)

\* the calls of dispatch within one instant of the clock
FairNext == \E c \in Clients : dispatch(c)

\* the dispatcher on a new store, every call that is under way being
\* scheduled again and again (the runtime polls every task that can run; the
\* lock hands itself to its waiters in FIFO order when it is released)
FairSpec == Init /\ [][FairNext]_vars /\ \A c \in Clients : WF_vars(Proceeds(c))

\* the dispatcher on a store that holds a task
StoreSpec == StoreInit /\ [][Next]_vars

\* one debate session and its caller
SessionInit ==
  /\ RegInit
  /\ store = new_task_store
  /\ uuids = 1
  /\ DebateInit

DebateSpec == SessionInit /\ [][DebateNext]_vars

\* one debate session whose caller records its rounds in order, goes on
\* while the debate is open and stops when it has ended
OrderlySpec == SessionInit /\ [][RecordInOrder]_vars /\ WF_vars(RecordInOrder)

\* one debate session, its rounds recorded and its prompts and messages built
PromptInit ==
  /\ RegInit
  /\ store = new_task_store
  /\ uuids = 1
  /\ QueryInit

PromptNext ==
  \/ record_round
  \/ CritiquePrompt
  \/ BuildRoundMessages

PromptSpec == PromptInit /\ [][PromptNext]_vars

\* one debate session and every operation of the engine on it
EngineInit ==
  /\ RegInit
  /\ store = new_task_store
  /\ uuids = 1
  /\ EngineIdle

EngineNext ==
  \/ record_round
  \/ Round1Prompt
  \/ CritiquePrompt
  \/ BuildRoundMessages
  \/ AnalyzeRound
  \/ SummaryReport

EngineSpec == EngineInit /\ [][EngineNext]_vars

\* one call of analyze_consensus
AnalysisInit ==
  /\ RegInit
  /\ store = new_task_store
  /\ uuids = 1
  /\ ConsensusInit

AnalysisNext ==
  \/ AnalyzeConsensus
  \/ AnalyzeConsensusAgain

ConsensusSpec == AnalysisInit /\ [][AnalysisNext]_vars

\* ------------------------- analyze_consensus on responses in any order
\* every list of at most MaxBees responses with confidences in tenths, 0.6
\* to 0.9 as the tests write them
AllResponsesF64 ==
  UNION {{[i \in 1 .. n |-> BeeResponse(i, F64Tenths(f[i][1]), f[i][2])] :
            f \in [1 .. n -> (6 .. 9) \X {None, Some("pro"), Some("con")}]} :
         n \in 0 .. MaxBees}

\* the same responses in every order
Reordered(responses) ==
  {[i \in DOMAIN responses |-> responses[p[i]]] :
     p \in IterOrders(DOMAIN responses)}

\* a caller is about to call analyze_consensus(responses, threshold) with
\* the threshold of its session
FloatInit ==
  /\ RegInit
  /\ store = new_task_store
  /\ uuids = 1
  /\ in_order = TRUE
  /\ \E threshold \in {F64Tenths(7), default_consensus_threshold},
        responses \in AllResponsesF64 :
       /\ session = new(DebateConfig(default_max_rounds, threshold))
       /\ out = Call("analyze_consensus", <<responses, threshold>>)

\* DebateSession::analyze_consensus(&responses, threshold) runs and returns
AnalyzeF64 ==
  /\ out.op = "analyze_consensus"
  /\ ~IsSome(out.value)
  /\ \E order \in IterOrders(DOMAIN PositionCounts(out.args[1])) :
       out' = Returned("analyze_consensus", out.args,
                       analyze_consensus_f64(out.args[1], out.args[2], order))
  /\ UNCHANGED <<session, in_order>>
  /\ UNCHANGED regVars

\* the caller analyzes the same responses again, handed over in another
\* order
AnalyzePermuted ==
  /\ out.op = "analyze_consensus"
  /\ IsSome(out.value)
  /\ \E responses \in Reordered(out.args[1]) :
       \E order \in IterOrders(DOMAIN PositionCounts(responses)) :
         out' = Returned("analyze_consensus", <<responses, out.args[2]>>,
                         analyze_consensus_f64(responses, out.args[2], order))
  /\ UNCHANGED <<session, in_order>>
  /\ UNCHANGED regVars

\* the caller records the responses it analyzed, or recorded before, in
\* some order as round 1 of a new session with the same configuration
RecordPermuted ==
  /\ out.op \in {"analyze_consensus", "record_round"}
  /\ IsSome(out.value)
  /\ \E responses \in Reordered(IF out.op = "record_round"
                                     THEN out.args[3] ELSE out.args[1]),
        prompt \in Prompts :
       \E order \in IterOrders(DOMAIN PositionCounts(responses)) :
         /\ session' = RecordedWith(new(session.config), 1, prompt, responses,
                analyze_consensus_f64(responses,
                                      session.config.consensus_threshold, order))
         /\ out' = Returned("record_round", <<1, prompt, responses>>, "()")
  /\ UNCHANGED in_order
  /\ UNCHANGED regVars

FloatNext ==
  \/ AnalyzeF64
  \/ AnalyzePermuted
  \/ RecordPermuted

\* analyze_consensus and record_round computed in f64 on responses handed
\* over in every order
FloatSpec == FloatInit /\ [][FloatNext]_vars

\* ================================================================ claims
IsResult(r) == IsSome(r.result) /\ ~IsSome(r.error)
IsError(r, code) ==
  /\ ~IsSome(r.result)
  /\ IsSome(r.error)
  /\ Unwrap(r.error).code = code

KnownMethods == {"message/send", "tasks/get", "tasks/cancel"}

\* a call stands at one of these when its response is built and about to be
\* returned
ReturnPoints ==
  {"unknown_return", "send_invalid", "get_invalid", "cancel_invalid",
   "send_return", "get_return", "cancel_return"}
InvalidPoints == {"send_invalid", "get_invalid", "cancel_invalid"}

\* the call of caller c takes a step
Steps(c) == pc'[c] /= pc[c]

\* C1: every tasks/cancel addressed to a task that was stored in state
\* Working either is the one call that returns a result showing state
\* canceled (no other has returned one), or returns UnsupportedOperation
\* after that one call returned; no task is ever cancelled with success twice.
C1_CancelSucceedsExactlyOnce ==
  /\ \A id \in DOMAIN cancelled : cancelled[id] <= 1
  /\ \A c \in Clients :
       (pc[c] = "cancel_return" /\ req[c].params.id \in DOMAIN store) =>
         LET id == req[c].params.id IN
         \/ /\ IsResult(resp[c])
            /\ Unwrap(resp[c].result).status.state = "canceled"
            /\ Count(cancelled, id) = 0
         \/ /\ IsError(resp[c], UNSUPPORTED_OPERATION)
            /\ Count(cancelled, id) = 1

\* a second cancel of a task is refused after the first one returned a result
C1_Witness ==
  \E c \in Clients :
    /\ pc[c] = "cancel_return"
    /\ IsError(resp[c], UNSUPPORTED_OPERATION)
    /\ Count(cancelled, req[c].params.id) = 1

\* C2: a stored task whose state is Completed, Failed or Canceled keeps that
\* state, and stays stored, in every step of every request.
C2_TerminalStateIsFinal ==
  [][\A id \in DOMAIN store :
       store[id].status.state \in TerminalStates =>
         /\ id \in DOMAIN store'
         /\ store'[id].status.state = store[id].status.state]_vars

\* a cancel has run against a Completed task, and another task was created
C2_Witness ==
  \E c \in Clients :
    /\ pc[c] = "cancel_return"
    /\ req[c].params.id \in DOMAIN store
    /\ store[req[c].params.id].status.state = "Completed"
    /\ Cardinality(DOMAIN store) = 2

\* C3: tasks/cancel on a task in a terminal state answers
\* UnsupportedOperation and changes nothing in the store, neither the task
\* nor any other.
C3_CancelOnTerminalIsRejected ==
  [][\A c \in Clients :
       ( /\ pc[c] \in {"cancel_match", "cancel_return"}
         /\ Steps(c)
         /\ req[c].params.id \in DOMAIN store
         /\ store[req[c].params.id].status.state \in TerminalStates ) =>
       /\ store' = store
       /\ pc[c] = "cancel_match" =>
            /\ pc'[c] = "cancel_return"
            /\ IsError(resp'[c], UNSUPPORTED_OPERATION)]_vars

\* a cancel of a Failed task was refused, at a later instant than the task's
\* timestamp, with another task in the store
C3_Witness ==
  \E c \in Clients :
    /\ pc[c] = "cancel_return"
    /\ IsError(resp[c], UNSUPPORTED_OPERATION)
    /\ store[req[c].params.id].status.state = "Failed"
    /\ clock > 0
    /\ Cardinality(DOMAIN store) = 2

\* message/send calls that have stored their task and not yet returned
Answering == {c \in Clients : pc[c] \in {"send_serialize", "send_return"}}

\* C4: the insert of a message/send adds exactly one task, under an id no
\* stored task has, in state Working, with history = [the submitted message],
\* and leaves the tasks stored before as they were; the number of stored
\* tasks is the number of sends that returned a result or are about to.
SendsAccounted ==
  /\ Cardinality(DOMAIN store) = created + Cardinality(Answering)
  /\ \A c \in Clients : pc[c] = "send_return" =>
        /\ IsResult(resp[c])
        /\ Unwrap(resp[c].result).id \in DOMAIN store
        /\ Unwrap(resp[c].result).status.state = "working"

C4_SendInsertsOneNewTask ==
  [][/\ SendsAccounted'
     /\ \A c \in Clients :
          (pc[c] = "send_insert" /\ Steps(c)) =>
            LET id == Unwrap(task[c]).id IN
            /\ id \notin DOMAIN store
            /\ DOMAIN store' = DOMAIN store \cup {id}
            /\ store'[id].id = id
            /\ store'[id].status.state = "Working"
            /\ store'[id].history = <<req[c].params.message>>
            /\ \A k \in DOMAIN store : store'[k] = store[k]]_vars

\* two sends ran concurrently and both stored their task
C4_Witness ==
  /\ \A c \in Clients : pc[c] = "send_return"
  /\ Cardinality(DOMAIN store) = 2

\* C5: tasks/get with an id that is not stored answers TaskNotFound, and no
\* step of a tasks/get changes the store.
UnknownIsNotFound ==
  \A c \in Clients :
    (pc[c] = "get_return" /\ req[c].params.id \notin DOMAIN store) =>
      IsError(resp[c], TASK_NOT_FOUND)

C5_GetUnknownIsNotFound ==
  [][/\ UnknownIsNotFound'
     /\ \A c \in Clients :
          (Steps(c) /\ "tasks/get" \in {req[c].method, req'[c].method}) =>
            store' = store]_vars

\* a get of an unknown id was answered while the store held a task
C5_Witness ==
  \E c \in Clients :
    /\ pc[c] = "get_return"
    /\ req[c].params.id \notin DOMAIN store
    /\ IsError(resp[c], TASK_NOT_FOUND)
    /\ store /= new_task_store

\* C6: a request whose method is not one of the three is answered
\* MethodNotFound under the request's id, whatever its params, and the store
\* is unchanged.
UnknownIsRefused ==
  \A c \in Clients :
    (pc[c] /= "idle" /\ req[c].method \notin KnownMethods) =>
      /\ pc[c] = "unknown_return"
      /\ IsError(resp[c], METHOD_NOT_FOUND)
      /\ resp[c].id = req[c].id

C6_UnknownMethodIsNotFound ==
  [][/\ UnknownIsRefused'
     /\ \A c \in Clients :
          (Steps(c) /\ (req[c].method \notin KnownMethods
                        \/ req'[c].method \notin KnownMethods)) =>
            store' = store]_vars

\* an unknown method was called with the id of a stored task as params
C6_Witness ==
  \E c \in Clients :
    /\ pc[c] = "unknown_return"
    /\ req[c].id = 99
    /\ "id" \in DOMAIN req[c].params
    /\ req[c].params.id \in DOMAIN store

\* whether the handler of `method` can parse `params`
Parses(method, params) ==
  CASE method = "message/send" -> "message" \in DOMAIN params
    [] method = "tasks/get" -> "id" \in DOMAIN params
    [] method = "tasks/cancel" -> "id" \in DOMAIN params
    [] OTHER -> TRUE

InLock(c) == lock.writer = c \/ c \in lock.readers \/ \E i \in DOMAIN lock.queue : lock.queue[i] = c

\* C7: a call of one of the three methods whose params do not parse is
\* answered InvalidParams; it never asks for the lock and changes neither the
\* store nor the lock.
UnparsedIsRefused ==
  \A c \in Clients :
    (pc[c] /= "idle" /\ ~Parses(req[c].method, req[c].params)) =>
      /\ pc[c] \in InvalidPoints
      /\ IsError(resp[c], INVALID_PARAMS)
      /\ ~InLock(c)

C7_InvalidParamsLeaveRegistry ==
  [][/\ UnparsedIsRefused'
     /\ \A c \in Clients :
          (Steps(c) /\ (~Parses(req[c].method, req[c].params)
                        \/ ~Parses(req'[c].method, req'[c].params))) =>
            /\ store' = store
            /\ lock' = lock]_vars

\* tasks/cancel has refused its params while another call held the write lock
C7_Witness ==
  \E c \in Clients :
    /\ pc[c] = "cancel_invalid"
    /\ lock.writer \notin {0, c}
    /\ store /= new_task_store

\* C8: every response dispatch is about to return holds exactly one of a
\* result and an error, under the id of the request.
C8_ResponseShape ==
  \A c \in Clients :
    pc[c] \in ReturnPoints =>
      /\ IsSome(resp[c].result) /= IsSome(resp[c].error)
      /\ resp[c].id = req[c].id

\* a result and an error are about to be returned at once
C8_Witness ==
  \E c, d \in Clients :
    /\ pc[c] = "get_return" /\ IsResult(resp[c]) /\ req[c].id = 99
    /\ pc[d] = "send_invalid" /\ IsSome(resp[d].error)

\* C9 as claimed: after at least one record_round, with any round_number
\* arguments, the number of recorded rounds equals current_round.
C9_AsClaimed ==
  Len(session.rounds) >= 1 => Len(session.rounds) = session.current_round

\* C9, amended: while every record_round call passes current_round + 1 as
\* its round_number, the number of recorded rounds equals current_round.
C9_RoundsMatchCurrentRound ==
  in_order => Len(session.rounds) = session.current_round

\* two rounds were recorded, numbered 1 and 2
C9_Witness ==
  in_order /\ Len(session.rounds) = 2 /\ session.current_round = 2

RoundsNumberedFromOne ==
  \A i \in DOMAIN session.rounds : session.rounds[i].round_number = i

\* C10 as claimed: in every reachable session the i-th recorded round has
\* round_number i.
C10_AsClaimed == RoundsNumberedFromOne

\* C10, amended: while every record_round call passes current_round + 1 as
\* its round_number, the i-th recorded round has round_number i.
C10_RoundNumbersIncrease == in_order => RoundsNumberedFromOne

\* two rounds were recorded in order, the second one ending the debate
C10_Witness ==
  /\ in_order
  /\ Len(session.rounds) = 2
  /\ session.rounds[1].round_number < session.rounds[2].round_number
  /\ session.state \in {"Concluded", "Exhausted"}

\* the call of analyze_consensus has returned
Analyzed == out.op = "analyze_consensus" /\ IsSome(out.value)

\* the mean of the confidences is at least the threshold (0.0 for no response)
MeanReaches(responses, threshold) ==
  IF responses = << >> THEN 0 >= threshold
  ELSE SumConfidence(responses) >= threshold * Len(responses)

JustRecorded == out.op = "record_round"

\* the round the last record_round call pushed
LastRound == session.rounds[Len(session.rounds)]

\* the responses reach consensus under the threshold
ReachConsensus(responses, threshold) ==
  \E order \in IterOrders(DOMAIN PositionCounts(responses)) :
    analyze_consensus(responses, threshold, order).consensus_reached

\* C12: a record_round whose responses reach consensus under the session's
\* threshold leaves the state Concluded, whatever its round_number is.
C12_ConsensusConcludes ==
  ( /\ JustRecorded
    /\ ReachConsensus(LastRound.responses, session.config.consensus_threshold) ) =>
  session.state = "Concluded"

\* consensus concluded a session in a round below max_rounds, after an
\* earlier round at max_rounds had concluded it too
C12_Witness ==
  /\ JustRecorded
  /\ Len(session.rounds) = 2
  /\ out.args[1] < session.config.max_rounds
  /\ session.rounds[1].round_number >= session.config.max_rounds
  /\ Unwrap(session.rounds[1].consensus).consensus_reached
  /\ ReachConsensus(LastRound.responses, session.config.consensus_threshold)
  /\ session.state = "Concluded"

\* C13: a record_round whose responses do not reach consensus and whose
\* round_number is at least max_rounds leaves the state Exhausted.
C13_NoConsensusAtMaxExhausts ==
  ( /\ JustRecorded
    /\ ~ReachConsensus(LastRound.responses, session.config.consensus_threshold)
    /\ out.args[1] >= session.config.max_rounds ) =>
  session.state = "Exhausted"

\* the round numbered max_rounds ended without consensus
C13_Witness ==
  /\ JustRecorded
  /\ out.args[1] = session.config.max_rounds
  /\ session.config.max_rounds > 0
  /\ LastRound.responses /= << >>
  /\ session.state = "Exhausted"

\* C14: a record_round whose responses do not reach consensus and whose
\* round_number is below max_rounds leaves the state Analyzing.
C14_NoConsensusBelowMaxAnalyzes ==
  ( /\ JustRecorded
    /\ ~ReachConsensus(LastRound.responses, session.config.consensus_threshold)
    /\ out.args[1] < session.config.max_rounds ) =>
  session.state = "Analyzing"

\* the round before the last allowed one ended without consensus
C14_Witness ==
  /\ JustRecorded
  /\ out.args[1] + 1 = session.config.max_rounds
  /\ LastRound.responses /= << >>
  /\ session.state = "Analyzing"

\* C15: the state a record_round call leaves depends on the configuration and
\* on the call's round_number and responses only: on the session as it is,
\* whatever its history, the call leaves the state it leaves on a new session
\* of the same configuration.
C15_StateIgnoresHistory ==
  \A round_number \in 0 .. MaxRoundNumber, prompt \in Prompts,
     responses \in RoundResponses :
    \A o1, o2 \in IterOrders(DOMAIN PositionCounts(responses)) :
      Recorded(session, round_number, prompt, responses, o1).state
        = Recorded(new(session.config), round_number, prompt, responses, o2).state

\* after a round that reached consensus, a round without consensus has put
\* the session back to Analyzing
C15_Witness ==
  /\ JustRecorded
  /\ Len(session.rounds) = 2
  /\ Unwrap(session.rounds[1].consensus).consensus_reached
  /\ session.state = "Analyzing"

\* the call `op` has returned a value
HasReturned(op) == out.op = op /\ IsSome(out.value)

\* C16: the list build_round_messages returns has one (endpoint, message)
\* pair per entry of bee_endpoints, in list order, the i-th carrying the i-th
\* endpoint and bee_index i counted from 0, every message carrying the
\* session id as debate_session_id; its length is that of bee_endpoints,
\* whatever num_bees is, and is 0 for no endpoint.
C16_OneMessagePerEndpoint ==
  HasReturned("build_round_messages") =>
    LET messages == Unwrap(out.value)
        bee_endpoints == session.config.bee_endpoints
    IN /\ Len(messages) = Len(bee_endpoints)
       /\ \A i \in DOMAIN messages :
            /\ messages[i][1] = bee_endpoints[i]
            /\ Unwrap(messages[i][2].metadata).bee_index = i - 1
            /\ Unwrap(messages[i][2].metadata).debate_session_id = session.id

\* the messages of round 2 were built for two endpoints of a configuration
\* that states one bee
C16_Witness ==
  /\ HasReturned("build_round_messages")
  /\ out.args[1] = 2
  /\ Len(Unwrap(out.value)) = 2
  /\ session.config.num_bees = 1

\* the prompt embeds the responses of `round`, in order, and nothing else
EmbedsRound(prompt, round) ==
  /\ Len(prompt.responses) = Len(round.responses)
  /\ \A j \in DOMAIN round.responses :
       /\ prompt.responses[j].bee_id = round.responses[j].bee_id
       /\ prompt.responses[j].confidence = Format1(round.responses[j].confidence)
       /\ prompt.responses[j].content = round.responses[j].content

\* C17 as claimed: for k >= 2, after any record_round calls, what
\* critique_prompt(k) returns embeds the responses of the recorded round
\* whose round_number is k - 1.
C17_AsClaimed ==
  (HasReturned("critique_prompt") /\ out.args[1] >= 2) =>
    \E i \in DOMAIN session.rounds :
      /\ session.rounds[i].round_number = out.args[1] - 1
      /\ EmbedsRound(Unwrap(out.value), session.rounds[i])

\* C17, amended: critique_prompt(k) returns only for k >= 2 with at least
\* k - 1 rounds recorded, and embeds the responses of the (k-1)-th recorded
\* round, in order; that round carries round_number k - 1 when every
\* record_round call passed current_round + 1.
C17_CritiqueEmbedsPreviousRecorded ==
  HasReturned("critique_prompt") =>
    LET k == out.args[1] IN
    /\ k >= 2
    /\ k - 1 <= Len(session.rounds)
    /\ EmbedsRound(Unwrap(out.value), session.rounds[k - 1])
    /\ in_order => session.rounds[k - 1].round_number = k - 1

\* critique_prompt(3) has embedded the two responses of the second of two
\* rounds recorded in order, the first of which had one response
C17_Witness ==
  /\ HasReturned("critique_prompt")
  /\ out.args[1] = 3
  /\ in_order
  /\ Len(session.rounds[1].responses) = 1
  /\ Len(Unwrap(out.value).responses) = 2

\* the responses that state a position
Stated(responses) == {i \in DOMAIN responses : IsSome(responses[i].position)}

\* a position without regard to letter case
Folded(p) ==
  IF p \in {"pro", "Pro", "PRO"} THEN "pro"
  ELSE IF p \in {"con", "Con", "CON"} THEN "con"
  ELSE p

\* two positions are the same up to letter case
SamePosition(p, q) == Folded(p) = Folded(q)

\* the entries of a list
Entries(list) == {list[i] : i \in DOMAIN list}

Holders(responses, p) ==
  Cardinality({i \in Stated(responses) : SamePosition(Unwrap(responses[i].position), p)})

C20_EmptyResponsesDegrade ==
  (JustRecorded /\ LastRound.responses = << >>) =>
    LET analysis == Unwrap(LastRound.consensus) IN
    /\ analysis.avg_confidence.num = 0
    /\ analysis.avg_confidence.den /= 0
    /\ analysis.agreement_points = << >>
    /\ analysis.contention_points = << >>
    /\ ~analysis.consensus_reached
    /\ session.state \in {"Analyzing", "Exhausted"}

\* a round without responses was recorded in a session whose threshold is 0,
\* after a round that had concluded the debate
C20_Witness ==
  /\ JustRecorded
  /\ LastRound.responses = << >>
  /\ session.config.consensus_threshold = 0
  /\ Len(session.rounds) = 2
  /\ Unwrap(session.rounds[1].consensus).consensus_reached
  /\ session.state = "Analyzing"

\* C21: two calls of analyze_consensus with the same response list and the
\* same threshold return the same ConsensusAnalysis, the entries of
\* agreement_points and of contention_points in the same order.
C21_SameArgumentsSameAnalysis ==
  [][(Analyzed /\ Analyzed' /\ out'.args = out.args) => out'.value = out.value]_vars

\* the stored task t, but for the state and the timestamp of its status
Framed(t) == [t EXCEPT !.status.state = "any", !.status.timestamp = None]

\* C22: in every step of every request each stored task stays stored and
\* keeps its id, context_id, history, artifacts, metadata and status message;
\* a step that changes a stored task is taken by a tasks/cancel of that task
\* holding the write lock, it sets the state to Canceled or the timestamp,
\* and that call goes on to return the task as its result.
C22_OnlyCancelChangesStatus ==
  [][/\ \A id \in DOMAIN store :
          /\ id \in DOMAIN store'
          /\ Framed(store'[id]) = Framed(store[id])
          /\ store'[id] /= store[id] =>
               /\ \E c \in Clients :
                    /\ pc[c] \in {"cancel_match", "cancel_stamp"}
                    /\ pc'[c] \in {"cancel_stamp", "cancel_serialize"}
                    /\ req[c].params.id = id
                    /\ HoldsWrite(c)
               /\ store'[id].status.state = "Canceled"
               /\ store[id].status.state \notin {"Completed", "Failed"}
     /\ \A c \in Clients :
          (pc[c] = "cancel_serialize" /\ Steps(c)) =>
            /\ pc'[c] = "cancel_return"
            /\ IsResult(resp'[c])
            /\ Unwrap(resp'[c].result).id = req[c].params.id]_vars

\* two tasks are stored; one was cancelled at a later time than it was
\* created and the call has returned, the other is still Working
C22_Witness ==
  \E id, other \in DOMAIN store :
    /\ id /= other
    /\ Count(cancelled, id) = 1
    /\ store[id].status.state = "Canceled"
    /\ store[id].status.timestamp = Some(Rfc3339(1))
    /\ store[id].history /= << >>
    /\ IsSome(store[id].status.message)
    /\ store[other].status.state = "Working"

\* the codes JSON-RPC 2.0 reserves, and among them the band it leaves to the
\* implementation for its own server errors
ReservedRange == -32768 .. -32000
ServerErrorBand == -32099 .. -32000

\* the code of the error a call is about to return
ErrorCode(c) == Unwrap(resp[c].error).code

\* a call is about to return an error for a method it does not know, for
\* params it cannot parse, for an id nothing is stored under, for a task
\* that cannot be cancelled
AnswersMethodNotFound(c) == pc[c] = "unknown_return"
AnswersInvalidParams(c) == pc[c] \in InvalidPoints
AnswersTaskNotFound(c) ==
  /\ pc[c] \in {"get_return", "cancel_return"}
  /\ IsSome(resp[c].error)
  /\ req[c].params.id \notin DOMAIN store
AnswersUnsupportedOperation(c) ==
  /\ pc[c] = "cancel_return"
  /\ IsSome(resp[c].error)
  /\ req[c].params.id \in DOMAIN store

\* C23 as stated: the method-not-found and invalid-params errors carry codes
\* inside the reserved range, the task-not-found and unsupported-operation
\* errors codes outside it, and the codes of the four kinds differ.
C23_AsClaimed ==
  \A c, d \in Clients :
    /\ (AnswersMethodNotFound(c) \/ AnswersInvalidParams(c)) =>
         ErrorCode(c) \in ReservedRange
    /\ (AnswersTaskNotFound(c) \/ AnswersUnsupportedOperation(c)) =>
         ErrorCode(c) \notin ReservedRange
    /\ (AnswersTaskNotFound(c) /\ AnswersUnsupportedOperation(d)) =>
         ErrorCode(c) /= ErrorCode(d)

\* C23, amended: the method-not-found error carries -32601 and the
\* invalid-params error a code inside the reserved range; the task-not-found
\* error carries -32001, which lies inside the reserved range as well, in the
\* band of implementation-defined server errors; the codes of the four kinds
\* of error differ from each other.
C23_ErrorCodes ==
  \A c, d \in Clients :
    /\ AnswersMethodNotFound(c) =>
         /\ ErrorCode(c) = -32601
         /\ ErrorCode(c) \in ReservedRange
    /\ AnswersInvalidParams(c) => ErrorCode(c) \in ReservedRange
    /\ AnswersTaskNotFound(c) =>
         /\ ErrorCode(c) = -32001
         /\ ErrorCode(c) \in ServerErrorBand
         /\ ErrorCode(c) \in ReservedRange
    /\ ( /\ \/ AnswersMethodNotFound(c) /\ ~AnswersMethodNotFound(d)
            \/ AnswersInvalidParams(c) /\ ~AnswersInvalidParams(d)
            \/ AnswersTaskNotFound(c) /\ ~AnswersTaskNotFound(d)
            \/ AnswersUnsupportedOperation(c) /\ ~AnswersUnsupportedOperation(d)
          /\ pc[d] \in ReturnPoints
          /\ IsSome(resp[d].error) ) =>
         ErrorCode(c) /= ErrorCode(d)

\* one caller is about to be told that its task id is unknown while the
\* other is about to be told that its method is
C23_Witness ==
  \E c, d \in Clients :
    /\ AnswersTaskNotFound(c)
    /\ pc[c] = "get_return"
    /\ AnswersMethodNotFound(d)

\* C24: round1_prompt embeds the topic; with n >= 1 entries in
\* knowledge_context it appends the knowledge section with every entry
\* verbatim, in list order, the i-th under the heading "Source i" for i from
\* 1 to n; with no entry it appends neither the section nor any heading.
C24_Round1PromptEmbedsKnowledge ==
  HasReturned("round1_prompt") =>
    LET prompt == Unwrap(out.value)
        knowledge_context == session.config.knowledge_context
        n == Len(knowledge_context)
    IN /\ prompt.topic = session.config.topic
       /\ Len(prompt.sources) = n
       /\ \A i \in 1 .. n :
            /\ prompt.sources[i].source = i
            /\ prompt.sources[i].text = knowledge_context[i]
       /\ prompt.knowledge <=> n >= 1

\* the prompt of a session was built whose knowledge_context holds two
\* different entries, the "Security concern" first
C24_Witness ==
  /\ HasReturned("round1_prompt")
  /\ session.config.knowledge_context = <<"Security concern", "Memory architectures">>
  /\ Unwrap(out.value).sources[2].source = 2

\* C25: whichever operations of the engine have run (new, round1_prompt,
\* critique_prompt, build_round_messages, analyze_consensus, record_round,
\* summary_report), the session is never InRound, it is Pending exactly
\* while no round is recorded, and once a round is recorded its state is one
\* of Analyzing, Concluded, Exhausted.
C25_NeverInRoundPendingWhileEmpty ==
  /\ session.state /= "InRound"
  /\ session.state = "Pending" <=> session.rounds = << >>
  /\ session.rounds /= << >> =>
       session.state \in {"Analyzing", "Concluded", "Exhausted"}

\* summary_report has returned on a session with two recorded rounds that is
\* still Analyzing, and reports that state
C25_Witness ==
  /\ HasReturned("summary_report")
  /\ Len(session.rounds) = 2
  /\ session.state = "Analyzing"
  /\ Unwrap(out.value).state = "Analyzing"

\* C26: every record_round call, whatever its round_number (0, a repeated
\* one, one that skips ahead or goes back), completes, appends one round
\* that carries that round_number, and sets current_round to it.
C26_RecordRoundTakesAnyNumber ==
  [][/\ out'.op = "record_round"
     /\ IsSome(out'.value)
     /\ ~out'.panicked
     /\ Len(session'.rounds) = Len(session.rounds) + 1
     /\ session'.rounds[Len(session'.rounds)].round_number = out'.args[1]
     /\ session'.current_round = out'.args[1]]_vars

\* a round numbered 3 was recorded on a new session, and then one numbered 0
C26_Witness ==
  /\ JustRecorded
  /\ Len(session.rounds) = 2
  /\ session.rounds[1].round_number = 3
  /\ session.rounds[2].round_number = 0
  /\ session.current_round = 0

\* where a handler stands once its lookup or mutation of the map is done and
\* its logging, serializing or returning is still ahead
PastTheMap ==
  {"send_serialize", "send_return", "get_return", "cancel_serialize",
   "cancel_return"}

\* the lock is held by one writer or by readers, never both
Exclusive == lock.writer /= 0 => lock.readers = {}

\* tasks/get reads the map under the shared lock, message/send and
\* tasks/cancel change it under the exclusive lock
LockModes ==
  /\ Exclusive
  /\ \A c \in Clients :
       /\ pc[c] = "get_lookup" => HoldsRead(c) /\ ~HoldsWrite(c)
       /\ pc[c] \in {"send_insert", "cancel_match", "cancel_stamp"} =>
            HoldsWrite(c) /\ ~HoldsRead(c)

\* C27 as stated: get takes the lock shared, send and cancel exclusive, and
\* each handler has released it once its lookup or mutation is done, before
\* it logs, serializes or returns.
C27_AsClaimed ==
  /\ LockModes
  /\ \A c \in Clients : pc[c] \in PastTheMap => ~InLock(c)

\* C27, amended: get takes the lock shared, send and cancel exclusive;
\* message/send has released it before it logs and serializes; tasks/get
\* holds its shared lock, and tasks/cancel its exclusive lock, until the
\* handler returns, the response being built meanwhile.
C27_LockHeldUntilReturn ==
  /\ LockModes
  /\ \A c \in Clients :
       /\ pc[c] \in {"send_serialize", "send_return"} => ~InLock(c)
       /\ pc[c] = "get_return" => HoldsRead(c) /\ ~HoldsWrite(c)
       /\ pc[c] \in {"cancel_serialize", "cancel_return"} =>
            HoldsWrite(c) /\ ~HoldsRead(c)
       /\ pc[c] \in {"idle", "unknown_return"} \cup InvalidPoints => ~InLock(c)

\* a cancel has changed the task and is about to log and serialize it under
\* the exclusive lock, and a tasks/get waits for that lock
C27_Witness ==
  \E c, d \in Clients :
    /\ pc[c] = "cancel_serialize"
    /\ HoldsWrite(c)
    /\ pc[d] = "get_wait"
    /\ ~HoldsRead(d)

\* a tasks/cancel of task id stands between its two assignments: the state
\* is Canceled already and the timestamp is still the old one
MidCancel(id) ==
  \E d \in Clients : pc[d] = "cancel_stamp" /\ req[d].params.id = id

\* C28: the task a tasks/get is about to return is the stored task as it
\* stands, no tasks/cancel of it stands between its two assignments (so it
\* is the task as it was before the cancel or as it is after it), and it
\* shows state canceled once a cancel of it has returned a result.
C28_GetSeesCancelWhole ==
  \A c \in Clients :
    (pc[c] = "get_return" /\ IsResult(resp[c])) =>
      LET id == req[c].params.id
          got == Unwrap(resp[c].result)
      IN /\ id \in DOMAIN store
         /\ got = TaskJson(store[id])
         /\ ~MidCancel(id)
         /\ got.status.state \in {"working", "canceled"}
         /\ Count(cancelled, id) >= 1 => got.status.state = "canceled"

\* a tasks/get is about to return a task as Working while a tasks/cancel of
\* the same task waits for the lock
C28_Witness ==
  \E c, d \in Clients :
    /\ pc[c] = "get_return"
    /\ IsResult(resp[c])
    /\ Unwrap(resp[c].result).status.state = "working"
    /\ pc[d] = "cancel_wait"
    /\ req[d].params.id = req[c].params.id

\* the entry that names position p held by `count` of `total` responses
Names(entry, p, count, total) ==
  entry = <<Folded(p), " (", count, "/", total, " agree)">>

Terminal == {"Concluded", "Exhausted"}

\* C30 as stated: once the state is Concluded or Exhausted no record_round
\* call changes it.
C30_AsClaimed ==
  [][session.state \in Terminal => session'.state = session.state]_vars

\* C30, amended: record_round does not look at the state; on a Concluded or
\* Exhausted session it sets the state from its own round alone: Concluded
\* if the responses reach consensus, else Exhausted if round_number >=
\* max_rounds, else Analyzing. The state stays terminal exactly when the
\* round reaches consensus or its round_number is at least max_rounds.
C30_TerminalStateFollowsLastRound ==
  [][session.state \in Terminal =>
       LET round == session'.rounds[Len(session'.rounds)]
           consensus == ReachConsensus(round.responses,
                                       session.config.consensus_threshold)
           at_max == round.round_number >= session.config.max_rounds
       IN /\ session'.state = IF consensus THEN "Concluded"
                              ELSE IF at_max THEN "Exhausted"
                              ELSE "Analyzing"
          /\ session'.state \in Terminal <=> (consensus \/ at_max)]_vars

\* a round at max_rounds without consensus left the session Exhausted, and
\* a later round without consensus, numbered below max_rounds, has left it
\* Analyzing
C30_Witness ==
  /\ JustRecorded
  /\ Len(session.rounds) = 2
  /\ session.rounds[1].round_number >= session.config.max_rounds
  /\ ~Unwrap(session.rounds[1].consensus).consensus_reached
  /\ session.rounds[2].round_number < session.config.max_rounds
  /\ session.state = "Analyzing"

\* C31: once a round is recorded, whichever operations of the engine have
\* run, the state is Concluded exactly when the last recorded round's
\* consensus_reached is true; it is Exhausted only if that is false and the
\* round's round_number >= max_rounds, Analyzing only if that is false and
\* the round_number < max_rounds; every recorded round carries an analysis.
C31_StateAgreesWithLastRound ==
  /\ \A k \in DOMAIN session.rounds : IsSome(session.rounds[k].consensus)
  /\ session.rounds /= << >> =>
       LET round == session.rounds[Len(session.rounds)]
           reached == Unwrap(round.consensus).consensus_reached
       IN /\ session.state = "Concluded" <=> reached
          /\ session.state = "Exhausted" =>
               ~reached /\ round.round_number >= session.config.max_rounds
          /\ session.state = "Analyzing" =>
               ~reached /\ round.round_number < session.config.max_rounds

\* a query has returned on a session left Exhausted by a second round, the
\* first round having reached consensus
C31_Witness ==
  /\ out.op \in {"round1_prompt", "summary_report", "analyze_consensus"}
  /\ Len(session.rounds) = 2
  /\ Unwrap(session.rounds[1].consensus).consensus_reached
  /\ ~Unwrap(session.rounds[2].consensus).consensus_reached
  /\ session.state = "Exhausted"

\* the most rounds a debate of max_rounds takes: max(1, max_rounds)
MostRounds == IF session.config.max_rounds > 1 THEN session.config.max_rounds ELSE 1

\* C32: while the caller records rounds numbered 1, 2, 3, .. and stops at
\* the first terminal state, a debate that is still open has fewer than
\* max(1, max_rounds) rounds recorded, and the debate does reach Concluded or
\* Exhausted, with at most max(1, max_rounds) rounds recorded (one round when
\* max_rounds = 0).
C32_InOrderDebateEnds ==
  /\ [](session.state \notin Terminal => Len(session.rounds) < MostRounds)
  /\ <>(session.state \in Terminal /\ Len(session.rounds) <= MostRounds)

\* a debate of max_rounds = 3 ended Exhausted with its third round, the
\* rounds numbered 1, 2, 3
C32_Witness ==
  /\ session.config.max_rounds = 3
  /\ Len(session.rounds) = 3
  /\ \A k \in 1 .. 3 : session.rounds[k].round_number = k
  /\ session.state = "Exhausted"

\* C33: on a store that only the dispatcher has written to, every stored
\* task is in state Working or Canceled.
C33_StoredTasksWorkingOrCanceled ==
  \A id \in DOMAIN store : store[id].status.state \in {"Working", "Canceled"}

\* two tasks were created and both were cancelled
C33_Witness ==
  /\ Cardinality(DOMAIN store) = 2
  /\ \A id \in DOMAIN store :
       store[id].status.state = "Canceled" /\ Count(cancelled, id) = 1

\* C34: under fair scheduling every call of dispatch that is under way
\* returns: at every moment each caller will be idle again, holding and
\* awaiting no lock.
C34_EveryRequestReturns ==
  \A c \in Clients : []<>(pc[c] = "idle" /\ ~InLock(c))

\* a cancel holds the write lock while a send and no one else waits for it
C34_Witness ==
  \E c, d \in Clients :
    /\ pc[c] = "cancel_stamp"
    /\ HoldsWrite(c)
    /\ pc[d] = "send_wait"
    /\ lock.queue = <<d>>

\* the positions the entries of a list name
Named(list) == {list[k][1] : k \in DOMAIN list}

\* C35: for every response list and every threshold > 0, the positions
\* named in agreement_points and those named in contention_points are
\* disjoint and together are the distinct case-normalized positions the
\* responses state; for a threshold above 0.5 agreement_points has at most
\* one entry.
C35_PointsPartitionPositions ==
  (Analyzed /\ out.args[2] > 0) =>
    LET responses == out.args[1]
        analysis == Unwrap(out.value)
        agreed == Named(analysis.agreement_points)
        contended == Named(analysis.contention_points)
    IN /\ agreed \cap contended = {}
       /\ agreed \cup contended =
            {Folded(Unwrap(responses[i].position)) : i \in Stated(responses)}
       /\ Cardinality(agreed) = Len(analysis.agreement_points)
       /\ Cardinality(contended) = Len(analysis.contention_points)
       /\ out.args[2] > 2 => Len(analysis.agreement_points) <= 1

\* at threshold 0.5 one bee says pro and one says con: both positions are
\* agreement points and none is in contention
C35_Witness ==
  /\ Analyzed
  /\ out.args[2] = 2
  /\ Len(out.args[1]) = 2
  /\ out.args[1][1].position = Some("pro")
  /\ out.args[1][2].position = Some("con")
  /\ Len(Unwrap(out.value).agreement_points) = 2
  /\ Unwrap(out.value).contention_points = << >>

\* C36: responses without a position form no group and still count: the
\* average is taken over all n responses, every agreement point names a
\* position that c of the n responses state with c/n >= threshold, n
\* counting the position-less responses too, and when no response states a
\* position there is no agreement point, no contention point and no
\* consensus, whatever the confidences and the threshold are.
C36_PositionlessCountInTotal ==
  Analyzed =>
    LET responses == out.args[1]
        threshold == out.args[2]
        analysis == Unwrap(out.value)
        n == Len(responses)
    IN /\ n > 0 =>
            analysis.avg_confidence.num * n =
              SumConfidence(responses) * analysis.avg_confidence.den
       /\ \A entry \in Entries(analysis.agreement_points) :
            \E i \in Stated(responses) :
              LET p == Unwrap(responses[i].position)
                  c == Holders(responses, p)
              IN Names(entry, p, c, n) /\ c * 4 >= threshold * n
       /\ Stated(responses) = {} =>
            /\ analysis.agreement_points = << >>
            /\ analysis.contention_points = << >>
            /\ ~analysis.consensus_reached

\* of three bees of confidence 1.0 one states a position: at threshold 0.5
\* its share 1/3 makes it a contention point and there is no consensus
C36_Witness ==
  /\ Analyzed
  /\ out.args[2] = 2
  /\ Len(out.args[1]) = 3
  /\ \A i \in 1 .. 3 : out.args[1][i].confidence = 4
  /\ Stated(out.args[1]) = {1}
  /\ Unwrap(out.value).agreement_points = << >>
  /\ Len(Unwrap(out.value).contention_points) = 1
  /\ ~Unwrap(out.value).consensus_reached

\* critique_prompt(k), or build_round_messages(k) with k other than 1
CritiqueCall(o) ==
  \/ o.op = "critique_prompt"
  \/ o.op = "build_round_messages" /\ o.args[1] /= 1

\* C37: critique_prompt(k), and build_round_messages(k) for k other than
\* 1, return a value exactly when k >= 2 and at least k - 1 rounds are
\* recorded; otherwise the call panics and returns nothing, neither an
\* error value nor an empty result; in both cases the session is as it was.
C37_CritiqueNeedsPreviousRound ==
  [][CritiqueCall(out') =>
       LET k == out'.args[1] IN
       /\ IsSome(out'.value) <=> (k >= 2 /\ Len(session.rounds) >= k - 1)
       /\ out'.panicked <=> ~IsSome(out'.value)
       /\ session' = session]_vars

\* build_round_messages(2) on a session without a round has panicked
C37_Witness ==
  /\ out.op = "build_round_messages"
  /\ out.args = <<2>>
  /\ out.panicked
  /\ out.value = None
  /\ session.rounds = << >>
  /\ session.state = "Pending"

\* C38: the round history is append-only: a record_round call lengthens
\* rounds by exactly one and leaves every earlier round at its place with
\* its round_number, prompt, responses and consensus analysis, and the
\* session id, the configuration and final_synthesis as they were.
C38_HistoryIsAppendOnly ==
  [][out'.op = "record_round" =>
       /\ Len(session'.rounds) = Len(session.rounds) + 1
       /\ \A k \in 1 .. Len(session.rounds) :
            /\ session'.rounds[k].round_number = session.rounds[k].round_number
            /\ session'.rounds[k].prompt = session.rounds[k].prompt
            /\ session'.rounds[k].responses = session.rounds[k].responses
            /\ session'.rounds[k].consensus = session.rounds[k].consensus
       /\ session'.id = session.id
       /\ session'.config = session.config
       /\ session'.final_synthesis = session.final_synthesis]_vars

\* a second round was recorded after one that differs from it in its
\* round_number and responses, and the first is still the first
C38_Witness ==
  /\ JustRecorded
  /\ Len(session.rounds) = 2
  /\ session.rounds[1].round_number = 2
  /\ session.rounds[2].round_number = 1
  /\ session.rounds[1].responses /= session.rounds[2].responses
  /\ session.final_synthesis = None

\* the same responses, in the same or another order
IsPermutation(a, b) == a \in Reordered(b)

\* C39: the outcome of analyze_consensus does not depend on the order of
\* the responses: two calls on permutations of one response list with one
\* threshold return the same consensus_reached, the same set of agreement
\* points and the same set of contention points, and record_round on new
\* sessions of one configuration leaves the same state.
C39_OutcomeIgnoresOrder ==
  [][/\ ( /\ out.op = "analyze_consensus" /\ IsSome(out.value)
          /\ out'.op = "analyze_consensus" /\ IsSome(out'.value)
          /\ out'.args[2] = out.args[2]
          /\ IsPermutation(out'.args[1], out.args[1]) ) =>
            /\ Unwrap(out'.value).consensus_reached
                 = Unwrap(out.value).consensus_reached
            /\ Entries(Unwrap(out'.value).agreement_points)
                 = Entries(Unwrap(out.value).agreement_points)
            /\ Entries(Unwrap(out'.value).contention_points)
                 = Entries(Unwrap(out.value).contention_points)
     /\ ( /\ out.op = "record_round" /\ out'.op = "record_round"
          /\ out'.args[1] = out.args[1]
          /\ session'.config = session.config
          /\ IsPermutation(out'.args[3], out.args[3]) ) =>
            session'.state = session.state]_vars

====
